---- MODULE Spec2Model ----
(***************************************************************************)
(* vecmap: an array-backed map (NewMap, src/src/map.rs) whose key -> slot  *)
(* index (SharedKeys / KeysInner, src/src/keystore.rs) is immutable,       *)
(* reference counted and shared between maps through a process-wide cache  *)
(* (StdKeyStore).                                                          *)
(*                                                                         *)
(* Every thread owns at most one value: either a NewMap or a bare          *)
(* SharedKeys handle.  The two DashMap accesses of StdKeyStore::get and of *)
(* KeysInner::insert are separate steps, so threads interleave between the *)
(* lookup and the entry() call exactly where the code releases the shard   *)
(* lock.  Everything a handler does after its last cache access is part of *)
(* the step that performs that access.                                     *)
(*                                                                         *)
(* Every Arc allocation carries its strong count, moved by each clone and  *)
(* drop the code makes.  StdKeyStore::stats runs on a thread of its own,   *)
(* one iterator step at a time; the read guards its DashMap iterators hold *)
(* keep entry() calls on the same DashMap waiting.  Each DashMap has one   *)
(* lock here: all its keys fall into one shard.                            *)
(***************************************************************************)
EXTENDS Integers, Sequences, FiniteSets, TLC

\* ------------------------------------------------------------------ bounds
MaxLen == 2          \* longest pair sequence run_tests hands to from_iter (Spec)
MaxSeq == 1          \* longest key sequence handed to the store (SpecShared)
MaxObjs == 5         \* index objects ever allocated

Keys == {"a", "b"}
Vals == {1, 2}
None == 0            \* Option::None; Some(v) is v itself, v \in Vals
NoObj == 0           \* "no handle yet"

Threads == {1, 2, 3} \* thread 1 runs run_tests; SpecShared uses all three, SpecKeys two
BasicThread == 0     \* the thread that runs tests::basic
AllThreads == Threads \cup {BasicThread}

VARIABLES
  store,     \* StdKeyStore::get_map(): DashMap<Vec<K>, SharedKeys<K>>
  objs,      \* the Arc<KeysInner<K>> allocations, by address (1..Len(objs))
  made,      \* history: what each allocation was built for
  pc,        \* where each thread stands inside get / insert
  call,      \* the arguments of the call a thread is inside
  kind,      \* what a thread owns: "none", "map" (NewMap) or "keys" (SharedKeys)
  keys,      \* NewMap.keys (or the bare handle): an address, NoObj before construction
  values,    \* NewMap.values: Vec<Option<V>>
  count,     \* NewMap.count
  baseline,  \* the BTreeMap that run_tests drives next to the map
  last,      \* the last completed call of each thread, its result and what it started from
  basic,     \* the calls tests::basic has still to make
  strong,    \* Arc::strong_count of each allocation
  stats,     \* the StdKeyStore::stats call of StatsThread: its position, locals and result
  quiet      \* history: no other operation has moved since the stats call began

vars == <<store, objs, made, pc, call, kind, keys, values, count, baseline, last, basic,
          strong, stats, quiet>>

\* ----------------------------------------------------------- pure helpers
EmptyFn == [x \in {} |-> 0]

Max(S) == CHOOSE x \in S : \A y \in S : y <= x

Range(s) == {s[i] : i \in DOMAIN s}

SeqsUpTo(S, n) == UNION {[1..i -> S] : i \in 0..n}

\* multiunzip of the (key, Some(value)) pairs: the key Vec and the value Vec
KeysOf(pairs) == [i \in DOMAIN pairs |-> pairs[i][1]]
ValuesOf(pairs) == [i \in DOMAIN pairs |-> pairs[i][2]]

Min(S) == CHOOSE x \in S : \A y \in S : x <= y

\* faulty variant: the first pair of an equal key keeps its index
KeysFromIterFirst(ks) ==
  [k \in Range(ks) |-> Min({i \in DOMAIN ks : ks[i] = k}) - 1]

\* faulty variant: the keys are numbered from 1
KeysFromIterFromOne(ks) ==
  [k \in Range(ks) |-> Max({i \in DOMAIN ks : ks[i] = k})]

\* KeysInner::from_iter::<K>: enumerate the keys and collect (key, index) into a
\* HashMap; a later pair with the same key replaces the earlier one.
KeysFromIter(ks) ==
  [k \in Range(ks) |-> Max({i \in DOMAIN ks : ks[i] = k}) - 1]

\* faulty variant: the new key gets the number of keys as its index
NextIndexLen(ind) == Cardinality(DOMAIN ind)

\* the index the or_insert_with closure gives the new key
NextIndex(ind) ==
  IF DOMAIN ind = {} THEN 0 ELSE Max({ind[k] : k \in DOMAIN ind}) + 1

\* faulty variant: the new key is put one position further
ExtendedSkip(ind, key) == (key :> NextIndex(ind) + 1) @@ ind

\* the pairs of self.indices chained with once((key, index)), collected into a
\* HashMap: the chained pair comes last and replaces an equal key
Extended(ind, key) == (key :> NextIndex(ind)) @@ ind

\* KeysInner { indices, inserts: Default::default() } behind a fresh Arc
NewInner(ind) == [indices |-> ind, inserts |-> EmptyFn, live |-> TRUE]

\* Arc::clone on the allocation behind handle h
ArcClone(st, h) == [st EXCEPT ![h] = @ + 1]

\* Drop for Arc on the allocation behind handle h
ArcDrop(st, h) == [st EXCEPT ![h] = @ - 1]

\* BTreeMap::from_iter over the same pairs: the last pair of an equal key wins
BTreeFromIter(ks, vs) ==
  [k \in Range(ks) |-> vs[Max({i \in DOMAIN ks : ks[i] = k})]]

BTreeGet(b, key) == IF key \in DOMAIN b THEN b[key] ELSE None

\* SharedKeys::indices / get_index through a handle
Indices(h) == IF h = NoObj THEN EmptyFn ELSE objs[h].indices

\* NewMap::get
MapGet(t, key) ==
  IF key \in DOMAIN Indices(keys[t])
  THEN values[t][Indices(keys[t])[key] + 1]
  ELSE None

\* the (key, value) pairs NewMap::iter yields: the keys of the index whose slot is Some
IterSet(t) ==
  {<<k, values[t][Indices(keys[t])[k] + 1]>> :
     k \in {x \in DOMAIN Indices(keys[t]) : values[t][Indices(keys[t])[x] + 1] # None}}

BTreeSet(b) == {<<k, b[k]>> : k \in DOMAIN b}

NoCall == [op |-> "none", ks |-> <<>>, vs |-> <<>>, key |-> "a", val |-> None, cand |-> NoObj,
           guard |-> {}]

NoLast == [op |-> "none", key |-> "a", ks |-> <<>>, res |-> None, bres |-> None,
           keys0 |-> NoObj, idx0 |-> EmptyFn, len0 |-> 0, count0 |-> 0, got0 |-> None]

\* what a completed call leaves in `last`: the call (ks for a construction, key
\* for the others), its result, the baseline's result, and what it started
\* from: the handle, the index content, the array length, the count and what
\* get(key) returned
Done(t, op, ks, key, res, bres) ==
  [last EXCEPT ![t] =
     [op |-> op, key |-> key, ks |-> ks, res |-> res, bres |-> bres,
      keys0 |-> keys[t], idx0 |-> Indices(keys[t]),
      len0 |-> Len(values[t]), count0 |-> count[t],
      got0 |-> IF kind[t] = "map" THEN MapGet(t, key) ELSE None]]

\* tests::basic after NewMap::default(), keys 0 and 1 written "a" and "b"
BasicCalls ==
  << [op |-> "insert", key |-> "a", val |-> 100],
     [op |-> "insert", key |-> "b", val |-> 101],
     [op |-> "insert", key |-> "b", val |-> 102],
     [op |-> "remove", key |-> "a", val |-> None] >>

\* tests::basic makes exactly its next call; every other thread is free
Allowed(t, op, key, val) ==
  t = BasicThread =>
    basic # <<>> /\ Head(basic) = [op |-> op, key |-> key, val |-> val]

Called(t) == basic' = IF t = BasicThread THEN Tail(basic) ELSE basic

\* the thread that calls StdKeyStore::stats
StatsThread == 4

\* KeyStoreStats
NoRes == [initial_entries |-> 0, total_maps |-> 0, total_inserts |-> 0, total_refs |-> 0]

\* no stats call yet
NoStats == [pc |-> "idle", all_keys |-> {}, stack |-> <<>>,
            res |-> NoRes, prev |-> NoRes, again |-> FALSE]

\* faulty variant: the Ref that get() returned is still alive after a miss
GuardKept(d) == {d}

\* the guards a caller holds on DashMap d after d.get(..) found nothing: the
\* Option<Ref> is None and the temporary ends with the lookup expression
GuardAfterMiss(d) == {}

\* some guard is held on DashMap d (the store is NoObj, the inserts of an
\* index object are its address): by the stats traversal, which is iterating
\* d, or by a caller inside get or insert
Guarded(d) ==
  \/ \E i \in DOMAIN stats.stack : stats.stack[i].obj = d
  \/ \E t \in AllThreads : d \in call[t].guard

\* a step of an operation other than stats: what earlier stats calls returned
\* is history from then on
Moved ==
  /\ quiet' = FALSE
  /\ stats' = [stats EXCEPT !.res = NoRes, !.prev = NoRes, !.again = FALSE]

\* calls that have passed inserts.get() and may still build an index
Pending == Cardinality({t \in AllThreads : pc[t] = "insert_entry"})

\* ---------------------------------------------------------------- initial
\* the process starts with an empty store and no map
Start ==
  /\ store = EmptyFn
  /\ objs = <<>>
  /\ made = <<>>
  /\ pc = [t \in AllThreads |-> "idle"]
  /\ call = [t \in AllThreads |-> NoCall]
  /\ kind = [t \in AllThreads |-> "none"]
  /\ keys = [t \in AllThreads |-> NoObj]
  /\ values = [t \in AllThreads |-> <<>>]
  /\ count = [t \in AllThreads |-> 0]
  /\ baseline = [t \in AllThreads |-> EmptyFn]
  /\ last = [t \in AllThreads |-> NoLast]
  /\ strong = <<>>
  /\ stats = NoStats
  /\ quiet = FALSE

Init == Start /\ basic = BasicCalls

InitShared == Start /\ basic = <<>>

\* ------------------------------------------------------- StdKeyStore::get
\* What the caller of StdKeyStore::get does with the handle h it gets back:
\* NewMap::default and NewMap::from_iter build the map around it (values as
\* unzipped, count = values.len()); a direct caller just keeps the handle.
\* run_tests builds its BTreeMap from the same pairs.
GetReturn(t, op, ks, vs, h) ==
  /\ keys' = [keys EXCEPT ![t] = h]
  /\ kind' = [kind EXCEPT ![t] = IF op = "store_get" THEN "keys" ELSE "map"]
  /\ values' = [values EXCEPT ![t] = vs]
  /\ count' = [count EXCEPT ![t] = Len(vs)]
  /\ baseline' = [baseline EXCEPT ![t] =
                    IF op = "from_iter" THEN BTreeFromIter(ks, vs) ELSE EmptyFn]
  /\ last' = Done(t, op, ks, "a", None, None)

\* map.get(&keys) finds a cached index: its handle is cloned and returned
GetHit(t, op, ks, vs) ==
  /\ pc[t] = "idle" /\ kind[t] = "none"
  /\ ks \in DOMAIN store
  /\ GetReturn(t, op, ks, vs, store[ks])
  /\ strong' = ArcClone(strong, store[ks])
  /\ Moved
  /\ UNCHANGED <<store, objs, made, pc, call, basic>>

\* map.get(&keys) finds nothing: the guard is released and the closure builds
\* a candidate index with SharedKeys::from_iter(keys.iter().cloned())
GetMiss(t, op, ks, vs) ==
  /\ pc[t] = "idle" /\ kind[t] = "none"
  /\ ks \notin DOMAIN store
  /\ Len(objs) + Pending < MaxObjs
  /\ objs' = Append(objs, NewInner(KeysFromIter(ks)))
  /\ strong' = Append(strong, 1)
  /\ Moved
  /\ made' = Append(made, [base |-> NoObj, key |-> "a", ks |-> ks])
  /\ pc' = [pc EXCEPT ![t] = "get_entry"]
  /\ call' = [call EXCEPT ![t] =
                [op |-> op, ks |-> ks, vs |-> vs, key |-> "a", val |-> None,
                 cand |-> Len(objs) + 1, guard |-> GuardAfterMiss(NoObj)]]
  /\ UNCHANGED <<store, kind, keys, values, count, baseline, last, basic>>

\* faulty variant: map.insert(keys, value): the candidate replaces a stored index
StoreInsert(st, ks, cand) == (ks :> cand) @@ st

\* map.entry(keys).or_insert(value): under the shard lock, the candidate is
\* stored if the entry is vacant; if another thread filled it meanwhile the
\* candidate is dropped (its only reference) and the stored handle is returned
StoreOrInsert(st, ks, cand) == IF ks \in DOMAIN st THEN st ELSE (ks :> cand) @@ st

GetEntry(t) ==
  /\ pc[t] = "get_entry"
  /\ ~Guarded(NoObj)
  /\ LET c == call[t]
         st == StoreOrInsert(store, c.ks, c.cand)
     IN /\ store' = st
        /\ objs' = IF st[c.ks] = c.cand THEN objs
                   ELSE [objs EXCEPT ![c.cand].live = FALSE]
        /\ strong' = IF st[c.ks] = c.cand THEN ArcClone(strong, c.cand)
                     ELSE ArcClone(ArcDrop(strong, c.cand), st[c.ks])
        /\ Moved
        /\ GetReturn(t, c.op, c.ks, c.vs, st[c.ks])
  /\ pc' = [pc EXCEPT ![t] = "idle"]
  /\ call' = [call EXCEPT ![t] = NoCall]
  /\ UNCHANGED <<made, basic>>

\* ------------------------------------------------------ KeysInner::insert
\* What the caller of SharedKeys::insert does with the handle h it gets back.
\* NewMap::insert (new-key arm): self.keys = h; values.push(Some(value));
\* count += 1; None.  run_tests applies the same insert to its BTreeMap.
\* A direct caller keeps the handle.
InsertReturn(t, op, key, val, h) ==
  /\ keys' = [keys EXCEPT ![t] = h]
  /\ values' = [values EXCEPT ![t] =
                  IF op = "insert" THEN Append(values[t], val) ELSE values[t]]
  /\ count' = [count EXCEPT ![t] = IF op = "insert" THEN count[t] + 1 ELSE count[t]]
  /\ baseline' = [baseline EXCEPT ![t] =
                    IF op = "insert" THEN (key :> val) @@ baseline[t] ELSE baseline[t]]
  /\ last' = Done(t, op, <<>>, key, None,
                  IF op = "insert" THEN BTreeGet(baseline[t], key) ELSE None)

\* NewMap::insert reaches SharedKeys::insert only when
\* self.keys.indices().get(&key) is None; a direct caller passes any key
InsertCalled(t, op, key, val) ==
  /\ pc[t] = "idle"
  /\ Allowed(t, op, key, val)
  /\ Called(t)
  /\ \/ op = "insert" /\ kind[t] = "map" /\ key \notin DOMAIN Indices(keys[t])
     \/ op = "keys_insert" /\ kind[t] = "keys"

\* self.inserts.get(&key) finds the branch: return next.clone()
InsertHit(t, op, key, val) ==
  /\ InsertCalled(t, op, key, val)
  /\ key \in DOMAIN objs[keys[t]].inserts
  /\ InsertReturn(t, op, key, val, objs[keys[t]].inserts[key])
  /\ strong' = ArcDrop(ArcClone(strong, objs[keys[t]].inserts[key]), keys[t])
  /\ Moved
  /\ UNCHANGED <<store, objs, made, pc, call, kind>>

\* self.inserts.get(&key) finds nothing; the read guard is released
InsertMiss(t, op, key, val) ==
  /\ InsertCalled(t, op, key, val)
  /\ key \notin DOMAIN objs[keys[t]].inserts
  /\ Len(objs) + Pending < MaxObjs
  /\ Moved
  /\ pc' = [pc EXCEPT ![t] = "insert_entry"]
  /\ call' = [call EXCEPT ![t] =
                [op |-> op, ks |-> <<>>, vs |-> <<>>, key |-> key, val |-> val,
                 cand |-> NoObj, guard |-> GuardAfterMiss(keys[t])]]
  /\ UNCHANGED <<store, objs, made, kind, keys, values, count, baseline, last, strong>>

\* faulty variant: the closure runs and its index replaces a recorded branch
OrInsertWithReplace(os, base, key) ==
  [objs |-> Append([os EXCEPT ![base].inserts = (key :> Len(os) + 1) @@ @],
                   NewInner(Extended(os[base].indices, key))),
   ret |-> Len(os) + 1]

\* faulty variant: the branch is built and returned but not recorded
OrInsertWithForget(os, base, key) ==
  [objs |-> Append(os, NewInner(Extended(os[base].indices, key))),
   ret |-> Len(os) + 1]

\* faulty variant: a branch recorded under any key is taken for the branch of key
OrInsertWithAnyBranch(os, base, key) ==
  IF DOMAIN os[base].inserts # {}
  THEN [objs |-> os,
        ret |-> os[base].inserts[CHOOSE k \in DOMAIN os[base].inserts : TRUE]]
  ELSE [objs |-> Append([os EXCEPT ![base].inserts = (key :> Len(os) + 1) @@ @],
                        NewInner(Extended(os[base].indices, key))),
        ret |-> Len(os) + 1]

\* faulty variant: the closure interns by content: an index object that already
\* has the extended content is recorded as the branch instead of a fresh one
OrInsertWithInterned(os, base, key) ==
  LET same == {o \in DOMAIN os : os[o].live /\ os[o].indices = Extended(os[base].indices, key)}
  IN IF key \in DOMAIN os[base].inserts
     THEN [objs |-> os, ret |-> os[base].inserts[key]]
     ELSE IF same # {}
     THEN [objs |-> [os EXCEPT ![base].inserts = (key :> Min(same)) @@ @], ret |-> Min(same)]
     ELSE [objs |-> Append([os EXCEPT ![base].inserts = (key :> Len(os) + 1) @@ @],
                           NewInner(Extended(os[base].indices, key))),
           ret |-> Len(os) + 1]

\* faulty variant: the key is added to the index object itself
OrInsertWithInPlace(os, base, key) ==
  [objs |-> [os EXCEPT ![base].indices = Extended(@, key)], ret |-> base]

\* self.inserts.entry(key).or_insert_with(closure).value().clone(): under the
\* shard lock the closure runs only if the entry is still vacant, and then
\* builds the branch behind a fresh Arc, which the entry records; the arena
\* after the call and the handle returned
OrInsertWith(os, base, key) ==
  IF key \in DOMAIN os[base].inserts
  THEN [objs |-> os, ret |-> os[base].inserts[key]]
  ELSE [objs |-> Append([os EXCEPT ![base].inserts = (key :> Len(os) + 1) @@ @],
                        NewInner(Extended(os[base].indices, key))),
        ret |-> Len(os) + 1]

InsertEntry(t) ==
  /\ pc[t] = "insert_entry"
  /\ ~Guarded(keys[t])
  /\ LET c == call[t]
         r == OrInsertWith(objs, keys[t], c.key)
         built == IF Len(r.objs) = Len(objs) THEN strong ELSE Append(strong, 1)
     IN /\ objs' = r.objs
        /\ strong' = ArcDrop(ArcClone(built, r.ret), keys[t])
        /\ Moved
        /\ made' = IF Len(r.objs) = Len(objs) THEN made
                   ELSE Append(made, [base |-> keys[t], key |-> c.key, ks |-> <<>>])
        /\ InsertReturn(t, c.op, c.key, c.val, r.ret)
  /\ pc' = [pc EXCEPT ![t] = "idle"]
  /\ call' = [call EXCEPT ![t] = NoCall]
  /\ UNCHANGED <<store, kind, basic>>

\* ----------------------------------------------------------------- NewMap
\* faulty variant: the value is taken out of its slot
GetTake(t, key) ==
  /\ pc[t] = "idle" /\ kind[t] = "map"
  /\ last' = Done(t, "get", <<>>, key, MapGet(t, key), BTreeGet(baseline[t], key))
  /\ values' = IF key \in DOMAIN Indices(keys[t])
               THEN [values EXCEPT ![t][Indices(keys[t])[key] + 1] = None]
               ELSE values
  /\ Moved
  /\ UNCHANGED <<store, objs, made, pc, call, kind, keys, count, baseline, basic, strong>>

\* NewMap::get, compared by run_tests with the BTreeMap's get
Get(t, key) ==
  /\ pc[t] = "idle" /\ kind[t] = "map"
  /\ last' = Done(t, "get", <<>>, key, MapGet(t, key), BTreeGet(baseline[t], key))
  /\ Moved
  /\ UNCHANGED <<store, objs, made, pc, call, kind, keys, values, count, baseline, basic,
                 strong>>

\* faulty variant: every insert counts
CountAfterReplaceAlways(c, old) == c + 1

\* the count after values[index].replace(value) returned old:
\* .or_else(|| { self.count += 1; None })
CountAfterReplace(c, old) == IF old = None THEN c + 1 ELSE c

\* faulty variant: every remove of a key the index knows counts
CountAfterTakeAlways(c, old) == c - 1

\* the count after values[index].take() returned old:
\* .map(|value| { self.count -= 1; value })
CountAfterTake(c, old) == IF old # None THEN c - 1 ELSE c

\* faulty variant: the slot is removed from the Vec
TakeSlotShrink(vs, i) == SubSeq(vs, 1, i - 1) \o SubSeq(vs, i + 1, Len(vs))

\* values[index].take(): the slot becomes None, the Vec keeps its length
TakeSlot(vs, i) == [vs EXCEPT ![i] = None]

\* NewMap::insert, Some(&index) arm: values[index].replace(value), and
\* count += 1 if the slot was None
InsertKnown(t, key, val) ==
  /\ pc[t] = "idle" /\ kind[t] = "map"
  /\ Allowed(t, "insert", key, val)
  /\ Called(t)
  /\ key \in DOMAIN Indices(keys[t])
  /\ LET i == Indices(keys[t])[key] + 1
         old == values[t][i]
     IN /\ values' = [values EXCEPT ![t][i] = val]
        /\ count' = [count EXCEPT ![t] = CountAfterReplace(@, old)]
        /\ last' = Done(t, "insert", <<>>, key, old, BTreeGet(baseline[t], key))
  /\ baseline' = [baseline EXCEPT ![t] = (key :> val) @@ @]
  /\ Moved
  /\ UNCHANGED <<store, objs, made, pc, call, kind, keys, strong>>

\* NewMap::remove: values[index].take() for a key of the index, count -= 1 if
\* a value came out; None for a key the index does not know
Remove(t, key) ==
  /\ pc[t] = "idle" /\ kind[t] = "map"
  /\ Allowed(t, "remove", key, None)
  /\ Called(t)
  /\ LET known == key \in DOMAIN Indices(keys[t])
         i == Indices(keys[t])[key] + 1
         old == IF known THEN values[t][i] ELSE None
     IN /\ values' = IF known THEN [values EXCEPT ![t] = TakeSlot(@, i)] ELSE values
        /\ count' = [count EXCEPT ![t] = CountAfterTake(@, old)]
        /\ last' = Done(t, "remove", <<>>, key, old, BTreeGet(baseline[t], key))
  /\ baseline' = [baseline EXCEPT ![t] = [k \in DOMAIN @ \ {key} |-> @[k]]]
  /\ Moved
  /\ UNCHANGED <<store, objs, made, pc, call, kind, keys, strong>>

\* faulty variant: the store lets go of an index that no map holds any more
DropEvict(t) ==
  /\ pc[t] = "idle" /\ kind[t] # "none"
  /\ LET unused == strong[keys[t]] = 2 /\ \E ks \in DOMAIN store : store[ks] = keys[t]
     IN /\ store' = IF unused
                    THEN [ks \in {x \in DOMAIN store : store[x] # keys[t]} |-> store[ks]]
                    ELSE store
        /\ strong' = IF unused THEN [strong EXCEPT ![keys[t]] = 0]
                     ELSE ArcDrop(strong, keys[t])
        /\ objs' = IF unused THEN [objs EXCEPT ![keys[t]].live = FALSE] ELSE objs
  /\ kind' = [kind EXCEPT ![t] = "none"]
  /\ keys' = [keys EXCEPT ![t] = NoObj]
  /\ values' = [values EXCEPT ![t] = <<>>]
  /\ count' = [count EXCEPT ![t] = 0]
  /\ baseline' = [baseline EXCEPT ![t] = EmptyFn]
  /\ last' = [last EXCEPT ![t] = NoLast]
  /\ Moved
  /\ UNCHANGED <<made, pc, call, basic>>

\* the owner's scope ends: the map (or the bare handle) is dropped, and with
\* it its handle on the index
Drop(t) ==
  /\ pc[t] = "idle" /\ kind[t] # "none"
  /\ strong' = ArcDrop(strong, keys[t])
  /\ kind' = [kind EXCEPT ![t] = "none"]
  /\ keys' = [keys EXCEPT ![t] = NoObj]
  /\ values' = [values EXCEPT ![t] = <<>>]
  /\ count' = [count EXCEPT ![t] = 0]
  /\ baseline' = [baseline EXCEPT ![t] = EmptyFn]
  /\ last' = [last EXCEPT ![t] = NoLast]
  /\ Moved
  /\ UNCHANGED <<store, objs, made, pc, call, basic>>

\* ----------------------------------------------------- StdKeyStore::stats
RECURSIVE Sum(_, _)
Sum(f, S) ==
  IF S = {} THEN 0
  ELSE LET x == CHOOSE y \in S : TRUE IN f[x] + Sum(f, S \ {x})

\* a DashMap iterator that has nothing left to yield ends its for loop, which
\* releases its read guard and resumes the loop of the caller
RECURSIVE PopDone(_)
PopDone(st) ==
  IF st # <<>> /\ st[Len(st)].todo = {}
  THEN PopDone(SubSeq(st, 1, Len(st) - 1))
  ELSE st

\* let map = Self::get_map(); let mut all_keys = HashSet::new(); for entry in
\* map: the iterator takes the read guard of the store
StatsBegin ==
  /\ stats.pc = "idle"
  /\ stats' = [pc |-> "collect", all_keys |-> {},
               stack |-> PopDone(<< [obj |-> NoObj, todo |-> DOMAIN store] >>),
               res |-> stats.res, prev |-> stats.res, again |-> quiet]
  /\ quiet' = TRUE
  /\ UNCHANGED <<store, objs, made, pc, call, kind, keys, values, count, baseline, last,
                 basic, strong>>

\* the innermost iterator yields its next entry (in hash order, so any of
\* those left) and SharedKeys::collect runs on it: a handle not yet in
\* all_keys is cloned into it and the for loop over its inserts begins, under
\* the read guard of that DashMap
StatsCollect ==
  /\ stats.pc = "collect" /\ stats.stack # <<>>
  /\ LET top == Len(stats.stack)
         f == stats.stack[top]
     IN \E k \in f.todo :
          LET child == IF f.obj = NoObj THEN store[k] ELSE objs[f.obj].inserts[k]
              rest == [stats.stack EXCEPT ![top].todo = @ \ {k}]
          IN IF child \in stats.all_keys
             THEN /\ stats' = [stats EXCEPT !.stack = PopDone(rest)]
                  /\ UNCHANGED strong
             ELSE /\ stats' = [stats EXCEPT
                                 !.all_keys = @ \cup {child},
                                 !.stack = PopDone(Append(rest,
                                   [obj |-> child, todo |-> DOMAIN objs[child].inserts]))]
                  /\ strong' = ArcClone(strong, child)
  /\ UNCHANGED <<store, objs, made, pc, call, kind, keys, values, count, baseline, last,
                 basic, quiet>>

\* all_keys.iter().map(|entry| entry.0.inserts.len()).sum()
TotalInserts(os, all) == Sum([o \in all |-> Cardinality(DOMAIN os[o].inserts)], all)

\* faulty variant: the handle all_keys holds is counted too
TotalRefsAll(st, all) == Sum([o \in all |-> st[o]], all)

\* all_keys.iter().map(|entry| Arc::strong_count(&entry.0) - 1).sum()
TotalRefs(st, all) == Sum([o \in all |-> st[o] - 1], all)

\* the for loop over the store has ended and its guard is released: the two
\* sums are taken and KeyStoreStats { initial_entries: map.len(), total_maps:
\* all_keys.len(), total_inserts, total_refs } is returned; all_keys goes out
\* of scope and drops its handles
StatsReturn ==
  /\ stats.pc = "collect" /\ stats.stack = <<>>
  /\ stats' = [stats EXCEPT
                 !.pc = "idle", !.all_keys = {},
                 !.res = [initial_entries |-> Cardinality(DOMAIN store),
                          total_maps |-> Cardinality(stats.all_keys),
                          total_inserts |-> TotalInserts(objs, stats.all_keys),
                          total_refs |-> TotalRefs(strong, stats.all_keys)]]
  /\ strong' = [i \in DOMAIN strong |->
                  IF i \in stats.all_keys THEN strong[i] - 1 ELSE strong[i]]
  /\ UNCHANGED <<store, objs, made, pc, call, kind, keys, values, count, baseline, last,
                 basic, quiet>>

\* ---------------------------------------------------------- specifications
\* The test binary.  Thread 1 is run_tests: a map built by from_iter from any
\* pair sequence, duplicates included, then driven by get / insert / remove
\* next to a BTreeMap.  BasicThread is tests::basic, which the test runner
\* runs in the same process, so both use the same store (both have K = u8).
Next ==
  \/ \E pairs \in SeqsUpTo(Keys \X Vals, MaxLen) :
        GetHit(1, "from_iter", KeysOf(pairs), ValuesOf(pairs))
  \/ \E pairs \in SeqsUpTo(Keys \X Vals, MaxLen) :
        GetMiss(1, "from_iter", KeysOf(pairs), ValuesOf(pairs))
  \/ \E key \in Keys, val \in Vals : InsertKnown(1, key, val)
  \/ \E key \in Keys, val \in Vals : InsertHit(1, "insert", key, val)
  \/ \E key \in Keys, val \in Vals : InsertMiss(1, "insert", key, val)
  \/ \E key \in Keys : Get(1, key)
  \/ \E key \in Keys : Remove(1, key)
  \/ GetHit(BasicThread, "default", <<>>, <<>>)
  \/ GetMiss(BasicThread, "default", <<>>, <<>>)
  \/ basic # <<>> /\ InsertKnown(BasicThread, Head(basic).key, Head(basic).val)
  \/ basic # <<>> /\ InsertHit(BasicThread, "insert", Head(basic).key, Head(basic).val)
  \/ basic # <<>> /\ InsertMiss(BasicThread, "insert", Head(basic).key, Head(basic).val)
  \/ basic # <<>> /\ Remove(BasicThread, Head(basic).key)
  \/ \E t \in {1, BasicThread} : GetEntry(t)
  \/ \E t \in {1, BasicThread} : InsertEntry(t)

Spec == Init /\ [][Next]_vars

\* Index sharing between maps.  Every thread builds a map by from_iter and
\* grows it by inserts of keys its index does not know yet (the other arm of
\* NewMap::insert never reaches the store); the values play no part, so every
\* value is 1.
Ones(ks) == [i \in DOMAIN ks |-> 1]

NextShared ==
  \/ \E t \in Threads, ks \in SeqsUpTo(Keys, MaxSeq) : GetHit(t, "from_iter", ks, Ones(ks))
  \/ \E t \in Threads, ks \in SeqsUpTo(Keys, MaxSeq) : GetMiss(t, "from_iter", ks, Ones(ks))
  \/ \E t \in Threads : GetEntry(t)
  \/ \E t \in Threads, key \in Keys : InsertHit(t, "insert", key, 1)
  \/ \E t \in Threads, key \in Keys : InsertMiss(t, "insert", key, 1)
  \/ \E t \in Threads : InsertEntry(t)

SpecShared == InitShared /\ [][NextShared]_vars

\* Branching.  Every thread builds a map by from_iter from a sequence over the
\* key a and grows it by inserts of the keys b and c, so that maps sharing a
\* non-empty base index branch off it by different keys.
NextBranch ==
  \/ \E t \in Threads, ks \in SeqsUpTo({"a"}, MaxSeq) : GetHit(t, "from_iter", ks, Ones(ks))
  \/ \E t \in Threads, ks \in SeqsUpTo({"a"}, MaxSeq) : GetMiss(t, "from_iter", ks, Ones(ks))
  \/ \E t \in Threads : GetEntry(t)
  \/ \E t \in Threads, key \in {"b", "c"} : InsertHit(t, "insert", key, 1)
  \/ \E t \in Threads, key \in {"b", "c"} : InsertMiss(t, "insert", key, 1)
  \/ \E t \in Threads : InsertEntry(t)

SpecBranch == InitShared /\ [][NextBranch]_vars

\* Direct callers of the key store: each of two threads takes a bare SharedKeys handle
\* from StdKeyStore::get and replaces it by what SharedKeys::insert returns,
\* for any key, known to the index or not.
NextKeys ==
  \/ \E t \in {1, 2}, ks \in SeqsUpTo(Keys, MaxSeq) : GetHit(t, "store_get", ks, <<>>)
  \/ \E t \in {1, 2}, ks \in SeqsUpTo(Keys, MaxSeq) : GetMiss(t, "store_get", ks, <<>>)
  \/ \E t \in {1, 2} : GetEntry(t)
  \/ \E t \in {1, 2}, key \in Keys : InsertHit(t, "keys_insert", key, None)
  \/ \E t \in {1, 2}, key \in Keys : InsertMiss(t, "keys_insert", key, None)
  \/ \E t \in {1, 2} : InsertEntry(t)

SpecKeys == InitShared /\ [][NextKeys]_vars

\* The store under observation.  Two threads build maps by NewMap::default(),
\* grow them by inserts of new keys and drop them, while StatsThread calls
\* StdKeyStore::stats again and again.
NextStats ==
  \/ \E t \in {1, 2} : GetHit(t, "default", <<>>, <<>>)
  \/ \E t \in {1, 2} : GetMiss(t, "default", <<>>, <<>>)
  \/ \E t \in {1, 2} : GetEntry(t)
  \/ \E t \in {1, 2}, key \in Keys : InsertHit(t, "insert", key, 1)
  \/ \E t \in {1, 2}, key \in Keys : InsertMiss(t, "insert", key, 1)
  \/ \E t \in {1, 2} : InsertEntry(t)
  \/ \E t \in {1, 2} : Drop(t)
  \/ StatsBegin
  \/ StatsCollect
  \/ StatsReturn

SpecStats == InitShared /\ [][NextStats]_vars

\* Scheduling.  Two threads build one map each by NewMap::default() and grow
\* it by inserts of new keys while StatsThread calls StdKeyStore::stats again
\* and again.  A stats call that has begun keeps taking steps, and a caller
\* waiting for the write lock of a DashMap gets it once the lock is free often
\* enough (the lock does not starve a writer).
NextLive ==
  \/ \E t \in {1, 2} : GetHit(t, "default", <<>>, <<>>)
  \/ \E t \in {1, 2} : GetMiss(t, "default", <<>>, <<>>)
  \/ \E t \in {1, 2} : GetEntry(t)
  \/ \E t \in {1, 2}, key \in Keys : InsertHit(t, "insert", key, 1)
  \/ \E t \in {1, 2}, key \in Keys : InsertMiss(t, "insert", key, 1)
  \/ \E t \in {1, 2} : InsertEntry(t)
  \/ StatsBegin
  \/ StatsCollect
  \/ StatsReturn

Fairness ==
  /\ \A t \in {1, 2} : SF_vars(GetEntry(t)) /\ SF_vars(InsertEntry(t))
  /\ WF_vars(StatsCollect)
  /\ WF_vars(StatsReturn)

SpecLive == InitShared /\ [][NextLive]_vars /\ Fairness

\* One map and the store's observer.  Thread 1 builds a map by
\* NewMap::default(), reads it, writes it (new keys and known keys), removes
\* from it and drops it, while StatsThread calls StdKeyStore::stats.
NextReads ==
  \/ GetHit(1, "default", <<>>, <<>>)
  \/ GetMiss(1, "default", <<>>, <<>>)
  \/ GetEntry(1)
  \/ \E key \in Keys : InsertKnown(1, key, 1)
  \/ \E key \in Keys : InsertHit(1, "insert", key, 1)
  \/ \E key \in Keys : InsertMiss(1, "insert", key, 1)
  \/ InsertEntry(1)
  \/ \E key \in Keys : Get(1, key)
  \/ \E key \in Keys : Remove(1, key)
  \/ Drop(1)
  \/ StatsBegin
  \/ StatsCollect
  \/ StatsReturn

SpecReads == InitShared /\ [][NextReads]_vars

\* The shape of the caches.  Thread 1 builds a map by from_iter from a
\* sequence over the key a and grows it by inserts of new keys; thread 2 takes
\* a bare SharedKeys handle for the same sequences and replaces it by what
\* SharedKeys::insert returns for the key a, known to the index or not;
\* StatsThread calls StdKeyStore::stats again and again.
NextForest ==
  \/ \E ks \in SeqsUpTo({"a"}, MaxSeq) : GetHit(1, "from_iter", ks, Ones(ks))
  \/ \E ks \in SeqsUpTo({"a"}, MaxSeq) : GetMiss(1, "from_iter", ks, Ones(ks))
  \/ \E ks \in SeqsUpTo({"a"}, MaxSeq) : GetHit(2, "store_get", ks, <<>>)
  \/ \E ks \in SeqsUpTo({"a"}, MaxSeq) : GetMiss(2, "store_get", ks, <<>>)
  \/ \E t \in {1, 2} : GetEntry(t)
  \/ \E key \in Keys : InsertHit(1, "insert", key, 1)
  \/ \E key \in Keys : InsertMiss(1, "insert", key, 1)
  \/ InsertHit(2, "keys_insert", "a", None)
  \/ InsertMiss(2, "keys_insert", "a", None)
  \/ \E t \in {1, 2} : InsertEntry(t)
  \/ StatsBegin
  \/ StatsCollect
  \/ StatsReturn

SpecForest == InitShared /\ [][NextForest]_vars

\* ------------------------------------------------------------------ claims
Maps == {t \in AllThreads : kind[t] = "map"}

\* the last call of t was a NewMap::insert that went through SharedKeys::insert
InsertedNew(t) ==
  /\ kind[t] = "map"
  /\ last[t].op = "insert"
  /\ last[t].key \notin DOMAIN last[t].idx0

\* C1: a map built by from_iter and the BTreeMap built from the same pairs
\* return the same result for every get, insert and remove, and after every
\* step iter() yields exactly the BTreeMap's (key, value) pairs.
C1_BehavesLikeBTreeMap ==
  \A t \in Maps :
    /\ last[t].res = last[t].bres
    /\ IterSet(t) = BTreeSet(baseline[t])

\* a map built from a sequence with a duplicate key (more slots than keys)
\* has answered an insert with the value it replaced
C1_Witness ==
  /\ kind[1] = "map"
  /\ Len(values[1]) > Cardinality(DOMAIN Indices(keys[1]))
  /\ last[1].op = "insert"
  /\ last[1].res \in Vals

\* C2: insert returns what get returned before it (None for a key that is
\* absent or was removed) and len() grows by 1 exactly when that is None;
\* remove returns what get returned before it and len() shrinks by 1 exactly
\* when that is Some.
C2_ReturnAndLen ==
  \A t \in Maps :
    /\ last[t].op = "insert" =>
         /\ last[t].res = last[t].got0
         /\ count[t] = IF last[t].res = None THEN last[t].count0 + 1 ELSE last[t].count0
    /\ last[t].op = "remove" =>
         /\ last[t].res = last[t].got0
         /\ count[t] = IF last[t].res = None THEN last[t].count0 ELSE last[t].count0 - 1

\* an insert of a key the index knows found its slot emptied by a remove
C2_Witness ==
  /\ kind[1] = "map"
  /\ last[1].op = "insert"
  /\ last[1].key \in DOMAIN last[1].idx0
  /\ last[1].res = None
  /\ count[1] = last[1].count0 + 1

\* C3 (as claimed): after from_iter, len() is the number of distinct keys of the
\* sequence (the size of the BTreeMap built from it), and is_empty() is true
\* exactly when that number is 0.
C3_LenIsDistinctKeys ==
  \A t \in Maps :
    last[t].op = "from_iter" =>
      /\ count[t] = Cardinality(Range(last[t].ks))
      /\ count[t] = Cardinality(DOMAIN baseline[t])
      /\ (count[t] = 0) <=> (Range(last[t].ks) = {})

\* C8: SharedKeys::insert(key) on an index without key returns an index with
\* exactly the base keys plus key, every base key at its base position and
\* key at the largest base position + 1 (0 for an empty base).
C8_ExtensionContent ==
  \A t \in Maps :
    InsertedNew(t) =>
      LET base == last[t].idx0
          ext == Indices(keys[t])
      IN /\ DOMAIN ext = DOMAIN base \cup {last[t].key}
         /\ \A k \in DOMAIN base : ext[k] = base[k]
         /\ \A k \in DOMAIN base : ext[last[t].key] > base[k]
         /\ \/ DOMAIN base = {} /\ ext[last[t].key] = 0
            \/ \E k \in DOMAIN base : ext[last[t].key] = base[k] + 1

\* an index whose largest position is not its number of keys - 1 (built from
\* a sequence with a duplicate key) has been extended
C8_Witness ==
  /\ InsertedNew(1)
  /\ DOMAIN last[1].idx0 # {}
  /\ Indices(keys[1])[last[1].key] > Cardinality(DOMAIN last[1].idx0)

\* C10: remove leaves the index handle and the length of the value array as
\* they were; an insert of a key the index knows does too, and the key keeps
\* its position, so a remove followed by an insert of that key ends on the
\* handle, the position and the array length it started from.
C10_RemoveReinsert ==
  /\ [](\A t \in Maps :
         /\ last[t].op = "remove" =>
              keys[t] = last[t].keys0 /\ Len(values[t]) = last[t].len0
         /\ (last[t].op = "insert" /\ last[t].key \in DOMAIN last[t].idx0) =>
              /\ keys[t] = last[t].keys0
              /\ Len(values[t]) = last[t].len0
              /\ Indices(keys[t])[last[t].key] = last[t].idx0[last[t].key])
  /\ [][\A t \in Maps :
          (/\ last[t].op = "remove"
           /\ last[t].key \in DOMAIN last[t].idx0
           /\ last'[t].op = "insert"
           /\ last'[t].key = last[t].key) =>
            /\ keys'[t] = last[t].keys0
            /\ Len(values'[t]) = last[t].len0
            /\ last[t].key \in DOMAIN Indices(keys[t])'
            /\ Indices(keys[t])'[last[t].key] = last[t].idx0[last[t].key]]_vars

\* a key was removed and inserted again into the slot the remove emptied
C10_Witness ==
  /\ kind[1] = "map"
  /\ last[1].op = "insert"
  /\ last[1].key \in DOMAIN last[1].idx0
  /\ last[1].got0 = None
  /\ Len(values[1]) > 1
  /\ MapGet(1, last[1].key) \in Vals

\* C4 (as claimed): SharedKeys::insert(key) on an index that contains key
\* returns that same index object: nothing is built for (index, key), no
\* branch is recorded under key, and key keeps its position.
C4_InsertPresentReturnsSelf ==
  \A t \in AllThreads :
    (/\ kind[t] = "keys"
     /\ last[t].op = "keys_insert"
     /\ last[t].key \in DOMAIN last[t].idx0) =>
      /\ keys[t] = last[t].keys0
      /\ last[t].key \notin DOMAIN objs[last[t].keys0].inserts
      /\ \A i \in DOMAIN made :
           ~(made[i].base = last[t].keys0 /\ made[i].key = last[t].key)
      /\ Indices(keys[t])[last[t].key] = last[t].idx0[last[t].key]

\* C5 (as claimed): two maps whose indexes had the same key -> position
\* content and that each inserted the same new key hold the same index object.
C5_SameContentSameBranch ==
  \A t1, t2 \in Maps :
    (/\ InsertedNew(t1) /\ InsertedNew(t2)
     /\ last[t1].key = last[t2].key
     /\ last[t1].idx0 = last[t2].idx0) =>
      keys[t1] = keys[t2]

\* C5 (amended): two maps that held the same index object and that each
\* inserted the same new key hold the same index object.
C5_SameBaseSameBranch ==
  \A t1, t2 \in Maps :
    (/\ InsertedNew(t1) /\ InsertedNew(t2)
     /\ last[t1].key = last[t2].key
     /\ last[t1].keys0 = last[t2].keys0) =>
      keys[t1] = keys[t2]

\* two maps built from the same key sequence have both inserted the same new key
C5_Witness ==
  \E t1, t2 \in Maps :
    /\ t1 # t2
    /\ InsertedNew(t1) /\ InsertedNew(t2)
    /\ last[t1].key = last[t2].key
    /\ last[t1].keys0 = last[t2].keys0
    /\ DOMAIN last[t1].idx0 # {}

\* C6: whatever the interleaving of SharedKeys::insert calls on one base index
\* with one new key, a single index object is ever built for (base, key), it
\* is the one the base records under key, it is complete, and every caller
\* holds it.
C6_OneExtension ==
  /\ \A i, j \in DOMAIN made :
       (made[i].base # NoObj /\ made[i].base = made[j].base /\ made[i].key = made[j].key)
         => i = j
  /\ \A t \in Maps :
       InsertedNew(t) =>
         /\ last[t].key \in DOMAIN objs[last[t].keys0].inserts
         /\ keys[t] = objs[last[t].keys0].inserts[last[t].key]
         /\ made[keys[t]].base = last[t].keys0 /\ made[keys[t]].key = last[t].key
         /\ objs[keys[t]].live
         /\ DOMAIN Indices(keys[t]) = DOMAIN last[t].idx0 \cup {last[t].key}

\* a thread found no branch, and before its entry() call another thread
\* recorded the branch for the same base and key
C6_Witness ==
  \E t1, t2 \in Maps :
    /\ t1 # t2
    /\ pc[t1] = "insert_entry"
    /\ call[t1].key \in DOMAIN objs[keys[t1]].inserts
    /\ InsertedNew(t2)
    /\ last[t2].keys0 = keys[t1]
    /\ last[t2].key = call[t1].key

\* C7: whatever the interleaving of StdKeyStore::get calls with equal key
\* sequences, every caller holds the index the store maps the sequence to;
\* an index built for a sequence is the stored one, or a candidate whose
\* builder has not reached entry() yet, or a discarded candidate nobody holds.
C7_OneStoredIndex ==
  /\ \A t \in Maps :
       last[t].op = "from_iter" =>
         last[t].ks \in DOMAIN store /\ keys[t] = store[last[t].ks]
  /\ \A i \in DOMAIN made :
       made[i].base = NoObj =>
         IF objs[i].live
         THEN \/ made[i].ks \in DOMAIN store /\ store[made[i].ks] = i
              \/ \E t \in AllThreads : pc[t] = "get_entry" /\ call[t].cand = i
         ELSE /\ \A t \in AllThreads : keys[t] # i /\ call[t].cand # i
              /\ \A ks \in DOMAIN store : store[ks] # i
              /\ made[i].ks \in DOMAIN store

\* a caller's candidate lost and was discarded, and that caller and the
\* winner hold the stored index
C7_Witness ==
  \E i \in DOMAIN made, t1, t2 \in Maps :
    /\ ~objs[i].live
    /\ t1 # t2
    /\ last[t1].op = "from_iter" /\ last[t2].op = "from_iter"
    /\ last[t1].ks = made[i].ks /\ last[t2].ks = made[i].ks
    /\ keys[t1] = keys[t2]

\* C9: two maps that held the same base index and inserted different new keys
\* hold two different branches, each with the base keys plus its own key; the
\* base object has the content it had, and so does every map still holding it.
C9_BranchesDoNotInterfere ==
  \A t1, t2 \in Maps :
    (/\ InsertedNew(t1) /\ InsertedNew(t2)
     /\ last[t1].keys0 = last[t2].keys0
     /\ last[t1].key # last[t2].key) =>
      /\ keys[t1] # keys[t2]
      /\ keys[t1] # last[t1].keys0 /\ keys[t2] # last[t1].keys0
      /\ DOMAIN Indices(keys[t1]) = DOMAIN last[t1].idx0 \cup {last[t1].key}
      /\ DOMAIN Indices(keys[t2]) = DOMAIN last[t2].idx0 \cup {last[t2].key}
      /\ Indices(last[t1].keys0) = last[t1].idx0
      /\ Indices(last[t1].keys0) = last[t2].idx0
      /\ \A t3 \in Maps :
           keys[t3] = last[t1].keys0 => Indices(keys[t3]) = last[t1].idx0

\* two maps branched off a non-empty base by different keys while a third
\* still holds it
C9_Witness ==
  \E t1, t2, t3 \in Maps :
    /\ InsertedNew(t1) /\ InsertedNew(t2)
    /\ last[t1].keys0 = last[t2].keys0
    /\ last[t1].key # last[t2].key
    /\ DOMAIN last[t1].idx0 # {}
    /\ keys[t3] = last[t1].keys0
    /\ pc[t3] = "idle"

\* the index objects reachable from the top-level cache through branch entries
RECURSIVE Reach(_)
Reach(S) ==
  LET N == S \cup UNION {{objs[o].inserts[k] : k \in DOMAIN objs[o].inserts} : o \in S}
  IN IF N = S THEN S ELSE Reach(N)

Reachable == Reach({store[ks] : ks \in DOMAIN store})

\* the handles live maps (and bare handles) hold on object o
MapHandles(o) == Cardinality({t \in AllThreads : kind[t] # "none" /\ keys[t] = o})

\* the handles the top-level cache and the branch caches hold on object o
CacheHandles(o) ==
  Cardinality({ks \in DOMAIN store : store[ks] = o})
  + Cardinality(UNION {{<<b, k>> : k \in {x \in DOMAIN objs[b].inserts : objs[b].inserts[x] = o}} :
                       b \in DOMAIN objs})

Quiescent == \A t \in AllThreads : pc[t] = "idle"

\* C11: a stats call during which no other operation was running returns as
\* total_refs the sum, over the index objects reachable from the store, of the
\* handles that maps, store entries and branch entries hold on each.
C11_TotalRefs ==
  (stats.pc = "idle" /\ quiet /\ Quiescent) =>
    stats.res.total_refs =
      Sum([o \in Reachable |-> MapHandles(o) + CacheHandles(o)], Reachable)

\* stats returned while two maps held one index object and a branch object
\* was held by its branch entry only
C11_Witness ==
  /\ stats.pc = "idle" /\ quiet /\ Quiescent
  /\ \E o \in Reachable : MapHandles(o) = 2
  /\ \E o \in Reachable : MapHandles(o) = 0 /\ made[o].base # NoObj
  /\ stats.res.total_refs > 3

\* C12: every position the current index of a map gives a key is below the
\* length of the value array, and after an insert of a new key the position
\* the extension gives that key is the slot that was pushed for it (the last
\* one), so no get, insert, remove or iteration indexes out of bounds.
C12_PositionsInBounds ==
  \A t \in Maps :
    /\ \A k \in DOMAIN Indices(keys[t]) : Indices(keys[t])[k] < Len(values[t])
    /\ InsertedNew(t) =>
         /\ Len(values[t]) = last[t].len0 + 1
         /\ Indices(keys[t])[last[t].key] = Len(values[t]) - 1

\* a map built from a sequence with a duplicate key (two slots, one key) has
\* pushed a third slot for a new key
C12_Witness ==
  /\ InsertedNew(1)
  /\ last[1].len0 = 2
  /\ Cardinality(DOMAIN last[1].idx0) = 1
  /\ Indices(keys[1])[last[1].key] = 2

\* C13 (as claimed): a slot of the value array holds a value exactly when a
\* key of the current index has that slot as its position (and get of that key
\* returns the slot's value); no occupied slot is left without a key.
C13_SlotIffKey ==
  \A t \in Maps :
    \A i \in DOMAIN values[t] :
      (values[t][i] # None) <=>
        \E k \in DOMAIN Indices(keys[t]) :
          /\ Indices(keys[t])[k] = i - 1
          /\ MapGet(t, k) = values[t][i]
          /\ MapGet(t, k) # None

\* C14: an insert or remove on one map leaves every other map's index handle,
\* len() and get(key) for every key as they were, also when the two maps
\* share index objects.
C14_OtherMapsUntouched ==
  [][\A a, b \in AllThreads :
       (/\ a # b
        /\ kind[a] = "map" /\ kind[b] = "map"
        /\ last'[a] # last[a]
        /\ last'[a].op \in {"insert", "remove"}) =>
         /\ keys'[b] = keys[b]
         /\ count'[b] = count[b]
         /\ Indices(keys[b])' = Indices(keys[b])
         /\ \A k \in Keys : MapGet(b, k)' = MapGet(b, k)]_vars

\* a map has branched off an index object by a new key while another map,
\* which holds a value, still holds that object
C14_Witness ==
  /\ InsertedNew(1)
  /\ kind[BasicThread] = "map"
  /\ keys[BasicThread] = last[1].keys0
  /\ DOMAIN last[1].idx0 # {}
  /\ count[BasicThread] > 0
  /\ MapGet(BasicThread, "a") = 100

\* C15: the key -> position mapping of an index object never changes, whatever
\* get, insert, remove, drop or stats step is taken: every object keeps its
\* address and get_index on it returns in the next state what it returns now.
C15_IndexImmutable ==
  [][\A i \in DOMAIN objs :
       /\ i \in DOMAIN objs'
       /\ objs'[i].indices = objs[i].indices]_vars

\* a non-empty index object that a branch was taken off is being visited by
\* stats after a remove on the map
C15_Witness ==
  /\ last[1].op = "remove"
  /\ last[1].res # None
  /\ stats.pc = "collect"
  /\ \E i \in stats.all_keys :
       /\ DOMAIN objs[i].indices # {}
       /\ DOMAIN objs[i].inserts # {}

\* a step of a read: NewMap::get returning, or a step of StdKeyStore::stats
GetStep(t) == last'[t] # last[t] /\ last'[t].op = "get"

StatsStep ==
  \/ stats'.pc # stats.pc
  \/ stats'.stack # stats.stack
  \/ stats'.all_keys # stats.all_keys

\* C18: get and stats change no index handle, value slot or count of any map
\* and no entry of the store or of a branch cache; a get repeated with no call
\* between returns the same, and so does a stats call repeated with no
\* operation between.
C18_ReadsChangeNothing ==
  /\ [][((\E t \in AllThreads : GetStep(t)) \/ StatsStep) =>
          /\ keys' = keys /\ values' = values /\ count' = count
          /\ store' = store /\ objs' = objs]_vars
  /\ [][\A t \in AllThreads :
          (GetStep(t) /\ last[t].op = "get" /\ last'[t].key = last[t].key) =>
            last'[t].res = last[t].res]_vars
  /\ []((stats.pc = "idle" /\ quiet /\ stats.again) => stats.res = stats.prev)

\* stats has returned twice with nothing between, over a store with branches,
\* and the map's last call was a get that found a value
C18_Witness ==
  /\ stats.pc = "idle" /\ quiet /\ stats.again
  /\ stats.res.total_inserts > 1
  /\ last[1].op = "get"
  /\ last[1].res # None

\* C16: no step removes or replaces an entry of the top-level cache or of a
\* branch cache, and the object an entry maps to stays alive, also when no map
\* holds it; so a StdKeyStore::get returns the object the store maps its key
\* sequence to, and an insert of a new key the object its base maps the key to.
C16_NoEviction ==
  /\ [][/\ \A ks \in DOMAIN store :
             ks \in DOMAIN store' /\ store'[ks] = store[ks]
         /\ \A i \in DOMAIN objs :
             /\ i \in DOMAIN objs'
             /\ \A k \in DOMAIN objs[i].inserts :
                  /\ k \in DOMAIN objs'[i].inserts
                  /\ objs'[i].inserts[k] = objs[i].inserts[k]]_vars
  /\ [](\A o \in Reachable : objs[o].live /\ strong[o] >= 1)
  /\ [](\A t \in Maps :
          /\ last[t].op \in {"default", "from_iter"} =>
               last[t].ks \in DOMAIN store /\ keys[t] = store[last[t].ks]
          /\ InsertedNew(t) =>
               /\ last[t].key \in DOMAIN objs[last[t].keys0].inserts
               /\ keys[t] = objs[last[t].keys0].inserts[last[t].key])

\* every map has been dropped, and the store still leads to the root index,
\* to its branches and to a branch of a branch, each held by its entry alone
C16_Witness ==
  /\ \A t \in AllThreads : kind[t] = "none" /\ pc[t] = "idle"
  /\ Cardinality(Reachable) >= 4
  /\ \E o \in Reachable : made[o].base # NoObj /\ made[made[o].base].base # NoObj
  /\ \A o \in Reachable : strong[o] = 1

\* the index StdKeyStore::get built, from which object i descends
RECURSIVE Root(_)
Root(i) == IF made[i].base = NoObj THEN i ELSE Root(made[i].base)

\* object i was built from a sequence of distinct keys, or descends from such
\* an object by inserts of keys that the extended index did not contain
RECURSIVE Clean(_)
Clean(i) ==
  IF made[i].base = NoObj
  THEN Cardinality(Range(made[i].ks)) = Len(made[i].ks)
  ELSE /\ made[i].key \notin DOMAIN objs[made[i].base].indices
       /\ Clean(made[i].base)

\* C17: an index built from n distinct keys, and every index that descends
\* from it by inserts of absent keys, has exactly the positions 0..m-1 for
\* its m keys, and the i-th key of the initial sequence is at position i.
C17_DensePositions ==
  \A i \in DOMAIN objs :
    Clean(i) =>
      LET ind == objs[i].indices
          ks == made[Root(i)].ks
      IN /\ {ind[k] : k \in DOMAIN ind} = 0..(Cardinality(DOMAIN ind) - 1)
         /\ \A j \in DOMAIN ks : ks[j] \in DOMAIN ind /\ ind[ks[j]] = j - 1

\* the store holds an index built from two distinct keys, and an index two
\* inserts away from the empty one
C17_Witness ==
  /\ \E i \in DOMAIN objs :
       made[i].base = NoObj /\ Len(made[i].ks) = 2 /\ Clean(i) /\ objs[i].live
  /\ \E i \in DOMAIN objs :
       /\ made[i].base # NoObj /\ made[made[i].base].base # NoObj
       /\ Clean(i)
       /\ Cardinality(DOMAIN objs[i].indices) = 2

\* C19: the count len() returns is the number of occupied slots of the value
\* array, and it is never below 0.
C19_CountIsOccupiedSlots ==
  \A t \in Maps :
    /\ count[t] >= 0
    /\ count[t] = Cardinality({i \in DOMAIN values[t] : values[t][i] # None})

\* a map built from a sequence with a duplicate key has had a remove that
\* found the slot already empty, with another slot still occupied
C19_Witness ==
  /\ kind[1] = "map"
  /\ last[1].op = "remove"
  /\ last[1].key \in DOMAIN last[1].idx0
  /\ last[1].res = None
  /\ Len(values[1]) > Cardinality(DOMAIN Indices(keys[1]))
  /\ count[1] > 0

\* C20: no caller asks for the lock of a DashMap while it holds a guard on
\* that DashMap, the stats traversal begins the loop over an index object's
\* inserts only for an object it has not visited, and under fair scheduling
\* every get, insert and stats call that has begun returns.
C20_EveryCallReturns ==
  /\ [](\A t \in AllThreads :
          /\ pc[t] = "get_entry" => NoObj \notin call[t].guard
          /\ pc[t] = "insert_entry" => keys[t] \notin call[t].guard)
  /\ [](\A i, j \in DOMAIN stats.stack :
          stats.stack[i].obj = stats.stack[j].obj => i = j)
  /\ [][\A i \in DOMAIN stats'.stack :
          (i > Len(stats.stack) \/ stats'.stack[i].obj # stats.stack[i].obj) =>
            stats'.stack[i].obj \notin stats.all_keys]_vars
  /\ \A t \in {1, 2} : (pc[t] # "idle") ~> (pc[t] = "idle")
  /\ (stats.pc # "idle") ~> (stats.pc = "idle")

\* a caller waits for the write lock of an index object's inserts while the
\* stats traversal, inside the loops over the store and over those inserts,
\* holds read guards on both
C20_Witness ==
  /\ \E t \in {1, 2} : pc[t] = "insert_entry" /\ Guarded(keys[t])
  /\ Guarded(NoObj)
  /\ Len(stats.stack) >= 2

\* C21: the index objects reachable from the store form a forest: each is
\* held by exactly one cache entry, a top-level entry or one branch entry of
\* one parent; and a stats call during which no other operation was running
\* returns the number of store entries, the number of reachable index objects
\* and the number of branch entries, with total_maps = initial_entries +
\* total_inserts.
C21_Forest ==
  /\ \A o \in Reachable : CacheHandles(o) = 1
  /\ (stats.pc = "idle" /\ quiet /\ Quiescent) =>
       /\ stats.res.initial_entries = Cardinality(DOMAIN store)
       /\ stats.res.total_maps = Cardinality(Reachable)
       /\ stats.res.total_inserts = TotalInserts(objs, Reachable)
       /\ stats.res.total_maps = stats.res.initial_entries + stats.res.total_inserts

\* stats returned over two trees: a root with a branch whose content a second
\* root has too, and a branch taken by a key its parent index already knew
C21_Witness ==
  /\ stats.pc = "idle" /\ quiet /\ Quiescent
  /\ stats.res.initial_entries = 2
  /\ stats.res.total_inserts >= 2
  /\ \E o \in Reachable, ks \in DOMAIN store :
       /\ made[o].base # NoObj
       /\ objs[o].indices = objs[store[ks]].indices
  /\ \E o \in Reachable :
       made[o].base # NoObj /\ made[o].key \in DOMAIN objs[made[o].base].indices

====
